---- MODULE Spec2Model ----
(***************************************************************************)
(* Model of uplink-sys/build.rs: the cargo build script that builds the    *)
(* uplink-c library with external tools, copies it into OUT_DIR and        *)
(* generates bindings.rs with bindgen.                                     *)
(*                                                                         *)
(* The state is the part of the filesystem the script touches, the         *)
(* environment variables it reads, the cargo directives it has printed and *)
(* the position of main (pc).  A run of main is a sequence of steps, one   *)
(* action per statement group of main; external tools and filesystem       *)
(* operations whose result the script ignores (.ok()) fail or succeed      *)
(* nondeterministically.                                                   *)
(***************************************************************************)
EXTENDS Naturals, Sequences, FiniteSets

\* ---------------------------------------------------------------------
\* Bounds
\* ---------------------------------------------------------------------

\* At most this many files are left in uplink-c/.build from an earlier run.
MaxStale == 1

\* ---------------------------------------------------------------------
\* File contents, file names
\* ---------------------------------------------------------------------

\* A file is absent, was there before the run (Old), or holds what this
\* run's native build produced (New).  A copy or a derived file carries the
\* value of the file it was made from.
None == "none"
Old == "old"
New == "new"
Content == {None, Old, New}

\* the two hand-written headers of the uplink-c project (line 143)
Headers == {"uplink_definitions.h", "uplink_compat.h"}

Dll == "libuplink.dll"
Def == "libuplink.def"
ImportLib == "uplink.lib"
StaticLib == "libuplink.a"
MakeHeader == "uplink.h"
GoHeader == "libuplink.h"
ApiHeader == "uplink/uplink.h"

UplinkSub(h) == "uplink/" \o h

\* files the native build writes under uplink-c/.build
Generated == {Dll, Def, ImportLib, StaticLib, MakeHeader, GoHeader, ApiHeader}

\* every file of a .build directory
BuildFiles == Generated \cup {UplinkSub(h) : h \in Headers}

EmptyTree == [f \in BuildFiles |-> None]

\* the tree left in OUT_DIR/uplink-c/.build by an earlier build
OldTree == [f \in BuildFiles |-> Old]

\* cargo directives (lines 201, 203, 207-210, 236-239, 246)
LinkDynamic == "cargo:rustc-link-lib=uplink"
LinkStatic == "cargo:rustc-link-lib=static=uplink"
LinkSearch == "cargo:rustc-link-search=OUT_DIR/uplink-c/.build"
RerunIfChanged == "cargo:rerun-if-changed=OUT_DIR/uplink-c/.build/uplink/uplink.h"
FrameworkFlags == "cargo:rustc-flags=-l framework=CoreFoundation -l framework=Security"

\* CARGO_CFG_TARGET_OS: a value, or not defined
TargetOS == {"windows", "macos", "linux", "undefined"}

\* results of starting an external process: it cannot be started, it exits
\* unsuccessfully, it exits successfully
Outcome == {"nolaunch", "fail", "ok"}

\* external processes main starts
NativeTools == {"go", "make", "gendef", "dlltool", "dumpbin", "lib"}

VARIABLES
    pc,          \* position of main
    os,          \* CARGO_CFG_TARGET_OS
    docs,        \* DOCS_RS is set
    outDirDef,   \* OUT_DIR is set
    srcExists,   \* directory uplink-c exists
    srcHdrs,     \* which of Headers exist in uplink-c
    sbExists,    \* directory uplink-c/.build exists
    sbUp,        \* directory uplink-c/.build/uplink exists
    sb,          \* files of uplink-c/.build
    outExists,   \* directory OUT_DIR/uplink-c exists
    outHdrs,     \* which of Headers exist in OUT_DIR/uplink-c
    outB,        \* files of OUT_DIR/uplink-c/.build
    docsRs,      \* files of .docs-rs
    docsExists,  \* directory .docs-rs exists
    outDll,      \* OUT_DIR/libuplink.dll
    targetDll,   \* CARGO_MANIFEST_DIR/../target/PROFILE/libuplink.dll
    bindings,    \* OUT_DIR/bindings.rs
    emitted,     \* sequence of cargo directives printed
    hist,        \* sequence of the steps main has executed
    failed,      \* steps in which an operation failed
    diag,        \* panic message of the run, None while it has not aborted
    readDocs,    \* .docs-rs was looked at
    init         \* uplink-c as it was before the run

vars == <<pc, os, docs, outDirDef, srcExists, srcHdrs, sbExists, sbUp, sb,
          outExists, outHdrs, outB, docsRs, docsExists, outDll, targetDll,
          bindings, emitted, hist, failed, diag, readDocs, init>>

fsSrc == <<srcExists, srcHdrs, sbExists, sbUp, sb>>
fsOut == <<outExists, outHdrs, outB, outDll, bindings>>
env == <<os, docs, outDirDef, docsRs, docsExists, init>>

\* ---------------------------------------------------------------------
\* Helpers
\* ---------------------------------------------------------------------

\* line 24: an undefined CARGO_CFG_TARGET_OS is not windows
IsWindows(o) == o = "windows"

\* a copy that leaves the libraries out
Overlay_HeadersOnly(dst, src) ==
    [f \in BuildFiles |-> IF src[f] # None /\ f \notin {ImportLib, StaticLib, Dll}
                          THEN src[f] ELSE dst[f]]

\* copy_dir_recursive on the files of a .build directory (lines 8-20):
\* every file of the source is written over the destination, files only
\* the destination has stay
Overlay(dst, src) == [f \in BuildFiles |-> IF src[f] # None THEN src[f] ELSE dst[f]]

\* files of .build/uplink exist only if that directory does
AnyIn(tree) == \E f \in BuildFiles : tree[f] # None

\* a step was executed
Ran(s) == \E i \in 1..Len(hist) : hist[i] = s

\* main panics with message m in step s
Abort(s, m) ==
    /\ pc' = "aborted"
    /\ diag' = m
    /\ failed' = failed \cup {s}

\* a step ends and main goes on at n; bad says whether an operation of the
\* step failed, s names what failed (the step, or "write_def" for the write
\* of libuplink.def)
Goto(s, n, bad) ==
    /\ pc' = n
    /\ diag' = diag
    /\ failed' = IF bad THEN failed \cup {s} ELSE failed

Step(s) == hist' = Append(hist, s)

\* ---------------------------------------------------------------------
\* Initial states
\* ---------------------------------------------------------------------

\* contents of .docs-rs: the headers of a prebuilt uplink-c
DocsTree ==
    [f \in BuildFiles |-> IF f \in {ApiHeader} \cup {UplinkSub(h) : h \in Headers}
                          THEN Old ELSE None]

Init ==
    /\ pc = "start"
    /\ os \in TargetOS
    /\ docs \in BOOLEAN
    /\ outDirDef \in BOOLEAN
    /\ srcExists \in BOOLEAN
    /\ srcHdrs \in IF srcExists THEN SUBSET Headers ELSE {{}}
    /\ \E stale \in SUBSET Generated :
          /\ Cardinality(stale) <= MaxStale
          /\ srcExists \/ stale = {}
          /\ sb = [f \in BuildFiles |-> IF f \in stale THEN Old ELSE None]
          /\ sbExists \in IF stale # {} THEN {TRUE} ELSE IF srcExists THEN BOOLEAN ELSE {FALSE}
          /\ sbUp = (ApiHeader \in stale)
    /\ outExists \in BOOLEAN
    /\ outB = IF outExists THEN OldTree ELSE EmptyTree
    /\ outHdrs = IF outExists THEN Headers ELSE {}
    /\ docsExists \in BOOLEAN
    /\ docsRs = IF docsExists THEN DocsTree ELSE EmptyTree
    /\ outDll = None
    /\ targetDll = None
    /\ bindings = None
    /\ emitted = <<>>
    /\ hist = <<>>
    /\ failed = {}
    /\ diag = None
    /\ readDocs = FALSE
    /\ init = [srcExists |-> srcExists, srcHdrs |-> srcHdrs, sbExists |-> sbExists,
               sbUp |-> sbUp, sb |-> sb]

\* ---------------------------------------------------------------------
\* Steps of main
\* ---------------------------------------------------------------------

\* a build script that does not look at DOCS_RS
AfterEnv_IgnoresDocs(d) == "mkdirs"

\* lines 29-31: the native build is skipped when DOCS_RS is set
AfterEnv(d) == IF d THEN "rm_out" ELSE "mkdirs"

\* line 23
ReadEnv ==
    /\ pc = "start"
    /\ Step("start")
    /\ IF outDirDef
       THEN Goto("start", AfterEnv(docs), FALSE)
       ELSE Abort("start", "OUT_DIR not defined")
    /\ UNCHANGED <<env, fsSrc, fsOut, targetDll, emitted, readDocs>>

\* lines 37, 133: which native build is run
AfterMkdirs(w) == IF w THEN "go_build" ELSE "make"

\* lines 33-35: create uplink-c/.build and uplink-c/.build/uplink, creating
\* missing parents; a failure is ignored
MkDirs ==
    /\ pc = "mkdirs"
    /\ Step("mkdirs")
    /\ \E ok1, ok2 \in BOOLEAN :
          /\ srcExists' = (srcExists \/ ok1 \/ ok2)
          /\ sbExists' = (sbExists \/ ok1 \/ ok2)
          /\ sbUp' = (sbUp \/ ok2)
          /\ Goto("mkdirs", AfterMkdirs(IsWindows(os)),
                  (~sbExists /\ ~ok1) \/ (~sbUp /\ ~ok2))
    /\ UNCHANGED <<env, srcHdrs, sb, fsOut, targetDll, emitted, readDocs>>

\* lines 39-53: go build of the DLL, run in uplink-c; it writes
\* .build/libuplink.dll and, next to it, libuplink.h (line 151)
GoBuild ==
    /\ pc = "go_build"
    /\ Step("go")
    /\ \E r \in Outcome :
          /\ srcExists \/ r = "nolaunch"
          /\ CASE r = "ok" ->
                    /\ sb' = [sb EXCEPT ![Dll] = New, ![GoHeader] = New]
                    /\ sbExists' = TRUE
                    /\ Goto("go", "gendef", FALSE)
               [] r = "fail" ->
                    /\ UNCHANGED <<sb, sbExists>>
                    /\ Abort("go", "go build failed for Windows DLL")
               [] r = "nolaunch" ->
                    /\ UNCHANGED <<sb, sbExists>>
                    /\ Abort("go", "Failed to run go build for Windows DLL")
    /\ UNCHANGED <<env, srcExists, srcHdrs, sbUp, fsOut, targetDll, emitted, readDocs>>

\* the MSVC tools are run whatever the MinGW tools did
AfterMinGW_Always(lib) == "dumpbin"

\* line 87: the MSVC tools are tried when uplink.lib does not exist
AfterMinGW(lib) == IF lib = None THEN "dumpbin" ELSE "check_lib"

\* lines 62-66: gendef prints the exports of the DLL; they are written to
\* libuplink.def, a failure of the write is ignored
Gendef ==
    /\ pc = "gendef"
    /\ Step("gendef")
    /\ \E r \in Outcome :
          /\ r = "ok" => sb[Dll] # None
          /\ IF r = "ok"
             THEN \E w \in BOOLEAN :
                     /\ sb' = IF w /\ sbExists THEN [sb EXCEPT ![Def] = sb[Dll]] ELSE sb
                     /\ Goto("write_def", "dlltool", ~(w /\ sbExists))
             ELSE /\ sb' = sb
                  /\ Goto("gendef", AfterMinGW(sb[ImportLib]), TRUE)
    /\ UNCHANGED <<env, srcExists, srcHdrs, sbExists, sbUp, fsOut, targetDll, emitted, readDocs>>

\* lines 69-82: dlltool makes uplink.lib from libuplink.def
Dlltool ==
    /\ pc = "dlltool"
    /\ Step("dlltool")
    /\ \E r \in Outcome :
          /\ r = "ok" => sb[Def] # None
          /\ sb' = IF r = "ok" THEN [sb EXCEPT ![ImportLib] = sb[Def]] ELSE sb
          /\ Goto("dlltool", AfterMinGW(sb'[ImportLib]), r # "ok")
    /\ UNCHANGED <<env, srcExists, srcHdrs, sbExists, sbUp, fsOut, targetDll, emitted, readDocs>>

\* lines 89-114: dumpbin prints the exports of the DLL; the uplink_ and
\* edge_ names are written to libuplink.def, a failure of the write is ignored
Dumpbin ==
    /\ pc = "dumpbin"
    /\ Step("dumpbin")
    /\ \E r \in Outcome :
          /\ r = "ok" => sb[Dll] # None
          /\ IF r = "ok"
             THEN \E w \in BOOLEAN :
                     /\ sb' = IF w /\ sbExists THEN [sb EXCEPT ![Def] = sb[Dll]] ELSE sb
                     /\ Goto("write_def", "lib_exe", ~(w /\ sbExists))
             ELSE /\ sb' = sb
                  /\ Goto("dumpbin", "check_lib", TRUE)
    /\ UNCHANGED <<env, srcExists, srcHdrs, sbExists, sbUp, fsOut, targetDll, emitted, readDocs>>

\* lines 117-125: lib.exe makes uplink.lib from libuplink.def; its result
\* is ignored
LibExe ==
    /\ pc = "lib_exe"
    /\ Step("lib")
    /\ \E r \in Outcome :
          /\ r = "ok" => sb[Def] # None
          /\ sb' = IF r = "ok" THEN [sb EXCEPT ![ImportLib] = sb[Def]] ELSE sb
          /\ Goto("lib", "check_lib", r # "ok")
    /\ UNCHANGED <<env, srcExists, srcHdrs, sbExists, sbUp, fsOut, targetDll, emitted, readDocs>>

\* lines 130-132
CheckLib ==
    /\ pc = "check_lib"
    /\ Step("check_lib")
    /\ IF sb[ImportLib] = None
       THEN Abort("check_lib", "Failed to create import library for libuplink.dll")
       ELSE Goto("check_lib", "copy_headers", FALSE)
    /\ UNCHANGED <<env, fsSrc, fsOut, targetDll, emitted, readDocs>>

\* what becomes of main after `make build` ended with outcome r: only a
\* make that could not be started panics (line 139)
MakeAborts(r) == r = "nolaunch"

\* lines 135-139: make build, run in uplink-c; it writes .build/libuplink.a
\* and the generated header .build/uplink.h (line 158)
Make ==
    /\ pc = "make"
    /\ Step("make")
    /\ \E r \in Outcome :
          /\ srcExists \/ r = "nolaunch"
          /\ IF r = "ok"
             THEN /\ sb' = [sb EXCEPT ![StaticLib] = New, ![MakeHeader] = New]
                  /\ sbExists' = TRUE
             ELSE UNCHANGED <<sb, sbExists>>
          /\ IF MakeAborts(r)
             THEN Abort("make", "Failed to run make command from build.rs.")
             ELSE Goto("make", "copy_headers", r # "ok")
    /\ UNCHANGED <<env, srcExists, srcHdrs, sbUp, fsOut, targetDll, emitted, readDocs>>

\* lines 143-150: each header that exists in uplink-c is copied to
\* .build/uplink; a failure of a copy is ignored
CopyHeaders ==
    /\ pc = "copy_headers"
    /\ Step("copy_headers")
    /\ \E okset \in SUBSET srcHdrs :
          LET copied == IF sbUp THEN okset ELSE {}
          IN /\ sb' = [f \in BuildFiles |->
                         IF \E h \in copied : f = UplinkSub(h) THEN Old ELSE sb[f]]
             /\ Goto("copy_headers", "copy_gen_header", copied # srcHdrs)
    /\ UNCHANGED <<env, srcExists, srcHdrs, sbExists, sbUp, fsOut, targetDll, emitted, readDocs>>

\* lines 153, 158: the header the native build generated
GeneratedHeader(w) == IF w THEN GoHeader ELSE MakeHeader

\* lines 152-162: the generated header, when it exists, is copied to
\* .build/uplink/uplink.h; a failure of the copy is ignored
CopyGenHeader ==
    /\ pc = "copy_gen_header"
    /\ Step("copy_gen_header")
    /\ LET gen == GeneratedHeader(IsWindows(os))
       IN IF sb[gen] # None
          THEN \E ok \in BOOLEAN :
                  /\ sb' = IF ok /\ sbUp THEN [sb EXCEPT ![ApiHeader] = sb[gen]] ELSE sb
                  /\ Goto("copy_gen_header", "rm_out", ~(ok /\ sbUp))
          ELSE /\ sb' = sb
               /\ Goto("copy_gen_header", "rm_out", FALSE)
    /\ UNCHANGED <<env, srcExists, srcHdrs, sbExists, sbUp, fsOut, targetDll, emitted, readDocs>>

NativeBuild ==
    \/ MkDirs
    \/ GoBuild
    \/ Gendef
    \/ Dlltool
    \/ Dumpbin
    \/ LibExe
    \/ CheckLib
    \/ Make
    \/ CopyHeaders
    \/ CopyGenHeader

\* a removal that leaves the files in place
RemoveDirAll_Keeps(t) == t

\* fs::remove_dir_all on a directory with the files t (lines 170, 186)
RemoveDirAll(t) == EmptyTree

\* lines 169-171: an existing OUT_DIR/uplink-c is removed; a failure of the
\* removal is ignored
RmOut ==
    /\ pc = "rm_out"
    /\ Step("rm_out")
    /\ IF outExists
       THEN \E ok \in BOOLEAN :
               /\ outExists' = ~ok
               /\ outHdrs' = IF ok THEN {} ELSE outHdrs
               /\ outB' = IF ok THEN RemoveDirAll(outB) ELSE outB
               /\ Goto("rm_out", "copy_out", ~ok)
       ELSE /\ UNCHANGED <<outExists, outHdrs, outB>>
            /\ Goto("rm_out", "copy_out", FALSE)
    /\ UNCHANGED <<env, fsSrc, outDll, bindings, targetDll, emitted, readDocs>>

\* lines 174, 181: what follows the copy of the project into OUT_DIR
AfterCopyOut(d) == IF d THEN "docs_copy" ELSE "delete_src"

\* line 172: copy_dir_recursive(uplink-c, OUT_DIR/uplink-c) (lines 8-20);
\* it panics when the destination cannot be created, when uplink-c cannot
\* be read and when a file cannot be copied
CopyOut ==
    /\ pc = "copy_out"
    /\ Step("copy_out")
    /\ \E r \in {"ok", "mkdir", "copy"} :
          /\ r = "copy" => srcExists /\ (srcHdrs # {} \/ AnyIn(sb))
          /\ CASE r = "mkdir" ->
                    /\ UNCHANGED <<outExists, outHdrs, outB>>
                    /\ Abort("copy_out", "Failed to create destination directory")
               [] r # "mkdir" /\ ~srcExists ->
                    /\ outExists' = TRUE
                    /\ UNCHANGED <<outHdrs, outB>>
                    /\ Abort("copy_out", "Failed to read source directory")
               [] r = "copy" /\ srcExists ->
                    /\ outExists' = TRUE
                    /\ UNCHANGED <<outHdrs, outB>>
                    /\ Abort("copy_out", "Failed to copy file")
               [] r = "ok" /\ srcExists ->
                    /\ outExists' = TRUE
                    /\ outHdrs' = outHdrs \cup srcHdrs
                    /\ outB' = Overlay(outB, sb)
                    /\ Goto("copy_out", AfterCopyOut(docs), FALSE)
    /\ UNCHANGED <<env, fsSrc, outDll, bindings, targetDll, emitted, readDocs>>

\* lines 174-180: with DOCS_RS set, .docs-rs, when it exists, is copied
\* into OUT_DIR/uplink-c/.build with copy_dir_recursive
DocsCopy ==
    /\ pc = "docs_copy"
    /\ Step("docs_copy")
    /\ readDocs' = TRUE
    /\ IF docsExists
       THEN \E ok \in BOOLEAN :
               IF ok
               THEN /\ outB' = Overlay(outB, docsRs)
                    /\ Goto("docs_copy", "emit_link", FALSE)
               ELSE /\ outB' = outB
                    /\ Abort("docs_copy", "Failed to copy file")
       ELSE /\ outB' = outB
            /\ Goto("docs_copy", "emit_link", FALSE)
    /\ UNCHANGED <<env, fsSrc, outExists, outHdrs, outDll, bindings, targetDll, emitted>>

\* lines 181-188: without DOCS_RS, uplink-c/.build, when it exists, is
\* removed; a failure of the removal is ignored
DeleteSrcBuild ==
    /\ pc = "delete_src"
    /\ Step("delete_src")
    /\ IF sbExists
       THEN \E ok \in BOOLEAN :
               /\ sbExists' = ~ok
               /\ sbUp' = IF ok THEN FALSE ELSE sbUp
               /\ sb' = IF ok THEN RemoveDirAll(sb) ELSE sb
               /\ Goto("delete_src", "emit_link", ~ok)
       ELSE /\ UNCHANGED <<sbExists, sbUp, sb>>
            /\ Goto("delete_src", "emit_link", FALSE)
    /\ UNCHANGED <<env, srcExists, srcHdrs, fsOut, targetDll, emitted, readDocs>>

\* static linking on every target
LinkLibDirective_AlwaysStatic(w) == LinkStatic

\* lines 199-204
LinkLibDirective(w) == IF w THEN LinkDynamic ELSE LinkStatic

\* lines 196-210: the link-lib and link-search directives
EmitLink ==
    /\ pc = "emit_link"
    /\ Step("emit_link")
    /\ emitted' = emitted \o <<LinkLibDirective(IsWindows(os)), LinkSearch>>
    /\ Goto("emit_link", "copy_dll", FALSE)
    /\ UNCHANGED <<env, fsSrc, fsOut, targetDll, readDocs>>

\* line 213: the DLL is copied on a Windows target only
CopiesDll(w, dll) == w /\ dll # None

\* lines 212-233: on Windows the DLL of OUT_DIR/uplink-c/.build is copied
\* to OUT_DIR and, when PROFILE and CARGO_MANIFEST_DIR are defined, to the
\* target directory; failures are ignored
CopyDll ==
    /\ pc = "copy_dll"
    /\ Step("copy_dll")
    /\ IF CopiesDll(IsWindows(os), outB[Dll])
       THEN \E ok1, defined, ok2 \in BOOLEAN :
               /\ outDll' = IF ok1 THEN outB[Dll] ELSE outDll
               /\ targetDll' = IF defined /\ ok2 THEN outB[Dll] ELSE targetDll
               /\ Goto("copy_dll", "emit_rerun", ~ok1 \/ (defined /\ ~ok2))
       ELSE /\ UNCHANGED <<outDll, targetDll>>
            /\ Goto("copy_dll", "emit_rerun", FALSE)
    /\ UNCHANGED <<env, fsSrc, outExists, outHdrs, outB, bindings, emitted, readDocs>>

\* lines 235-239
EmitRerun ==
    /\ pc = "emit_rerun"
    /\ Step("emit_rerun")
    /\ emitted' = Append(emitted, RerunIfChanged)
    /\ Goto("emit_rerun", "frameworks", FALSE)
    /\ UNCHANGED <<env, fsSrc, fsOut, targetDll, readDocs>>

\* line 245
NeedsFrameworks(o) == o = "macos"

\* lines 241-247: CARGO_CFG_TARGET_OS must be defined; on macos the
\* framework flags are printed
EmitFrameworks ==
    /\ pc = "frameworks"
    /\ Step("frameworks")
    /\ IF os = "undefined"
       THEN /\ emitted' = emitted
            /\ Abort("frameworks", "CARGO_CFG_TARGET_OS is not defined")
       ELSE /\ emitted' = IF NeedsFrameworks(os) THEN Append(emitted, FrameworkFlags)
                          ELSE emitted
            /\ Goto("frameworks", "bindgen", FALSE)
    /\ UNCHANGED <<env, fsSrc, fsOut, targetDll, readDocs>>

\* lines 249-281: bindgen reads OUT_DIR/uplink-c/.build/uplink/uplink.h and
\* the bindings are written to OUT_DIR/bindings.rs; both can fail
Bindgen ==
    /\ pc = "bindgen"
    /\ Step("bindgen")
    /\ \E r \in {"ok", "generate", "write"} :
          /\ r # "generate" => outB[ApiHeader] # None
          /\ CASE r = "ok" ->
                    /\ bindings' = outB[ApiHeader]
                    /\ Goto("bindgen", "done", FALSE)
               [] r = "generate" ->
                    /\ bindings' = bindings
                    /\ Abort("bindgen", "Error generating bindings.")
               [] r = "write" ->
                    /\ bindings' = bindings
                    /\ Abort("bindgen", "Error writing bindings to file.")
    /\ UNCHANGED <<env, fsSrc, outExists, outHdrs, outB, outDll, targetDll, emitted, readDocs>>

CopyToOutDir ==
    \/ RmOut
    \/ CopyOut
    \/ DocsCopy
    \/ DeleteSrcBuild

Linkage ==
    \/ EmitLink
    \/ CopyDll
    \/ EmitRerun
    \/ EmitFrameworks
    \/ Bindgen

Next ==
    \/ ReadEnv
    \/ NativeBuild
    \/ CopyToOutDir
    \/ Linkage

Spec == Init /\ [][Next]_vars

\* ---------------------------------------------------------------------
\* Properties
\* ---------------------------------------------------------------------

Terminated == pc \in {"done", "aborted"}

Range(q) == {q[i] : i \in DOMAIN q}

\* the library file a link directive for uplink resolves to
LinkedLib(w) == IF w THEN ImportLib ELSE StaticLib

\* every step was executed at most once
NoRepeat == \A i, j \in DOMAIN hist : hist[i] = hist[j] => i = j

\* C1: a run that terminates successfully has produced bindings.rs from
\* OUT_DIR/uplink-c/.build/uplink/uplink.h, and the library the link
\* directive names is in OUT_DIR/uplink-c/.build; a run that aborts has a
\* diagnostic.
C1_SuccessHasArtifacts ==
    /\ pc = "aborted" => diag # None
    /\ pc = "done" =>
          /\ bindings # None
          /\ bindings = outB[ApiHeader]
          /\ outB[LinkedLib(IsWindows(os))] # None

\* C2: once an operation of a step has failed, the run is aborted: no
\* later step is executed.
C2_FailureAborts == failed # {} => pc = "aborted"

\* C3 as stated: every tool is run at most once, and dumpbin and lib.exe
\* are never run after gendef or dlltool failed.
C3_NoFallback ==
    /\ NoRepeat
    /\ (Ran("dumpbin") \/ Ran("lib")) => failed \cap {"gendef", "dlltool"} = {}

\* C3 amended: every step, so every external tool, is run at most once;
\* the one fallback is that dumpbin is run exactly when uplink.lib does not
\* exist after the gendef and dlltool attempt, which is then after one of
\* them failed, and lib.exe is run only after dumpbin succeeded.
C3_OnlyFallback ==
    /\ NoRepeat
    /\ Ran("dumpbin") => failed \cap {"gendef", "dlltool"} # {}
    /\ (Ran("dumpbin") /\ ~Ran("lib")) => sb[ImportLib] = None
    /\ (pc = "check_lib" /\ ~Ran("dumpbin")) => sb[ImportLib] # None
    /\ Ran("lib") => (Ran("dumpbin") /\ "dumpbin" \notin failed)

C3_Witness ==
    /\ Ran("lib")
    /\ "gendef" \in failed
    /\ sb[ImportLib] = New

\* C4: once the link directives are printed there is exactly one link-lib
\* directive, the dynamic one exactly on windows, and the link-search
\* directive names OUT_DIR/uplink-c/.build; the framework flags are printed
\* exactly on macos.
C4_Linkage ==
    /\ Ran("emit_link") =>
          /\ Cardinality({i \in DOMAIN emitted : emitted[i] \in {LinkDynamic, LinkStatic}}) = 1
          /\ (LinkDynamic \in Range(emitted)) <=> (os = "windows")
          /\ (LinkStatic \in Range(emitted)) <=> (os # "windows")
          /\ LinkSearch \in Range(emitted)
    /\ ~Ran("emit_link") => emitted = <<>>
    /\ (FrameworkFlags \in Range(emitted)) <=> (Ran("frameworks") /\ os = "macos")

C4_Witness ==
    /\ pc = "done"
    /\ os = "macos"
    /\ docs
    /\ FrameworkFlags \in Range(emitted)

\* C5: with DOCS_RS set no native tool is run and uplink-c is as it was
\* before the run, and when the binding generator runs the files of
\* .docs-rs are in OUT_DIR/uplink-c/.build; without DOCS_RS .docs-rs is not
\* looked at.
C5_DocsRun ==
    /\ docs =>
          /\ Range(hist) \cap NativeTools = {}
          /\ [srcExists |-> srcExists, srcHdrs |-> srcHdrs, sbExists |-> sbExists,
              sbUp |-> sbUp, sb |-> sb] = init
          /\ (pc = "bindgen" \/ Ran("bindgen")) =>
                \A f \in BuildFiles : docsRs[f] # None => outB[f] = docsRs[f]
    /\ ~docs => ~readDocs

C5_Witness ==
    /\ docs
    /\ pc = "done"
    /\ docsExists
    /\ init.sb[Dll] # None
    /\ os = "windows"

\* C6 as stated: without DOCS_RS, when the run has ended, by success or by
\* abort, uplink-c/.build does not exist and no file outside OUT_DIR was
\* written.
C6_NothingLeftOutside ==
    (Terminated /\ ~docs) =>
        /\ ~sbExists
        /\ srcHdrs = init.srcHdrs
        /\ targetDll = None

\* C6 amended: without DOCS_RS, from the moment the deletion step has
\* removed uplink-c/.build without a failure, that directory does not
\* exist, to the end of the run; the hand-written files of uplink-c are
\* never changed; and libuplink.dll is written to the target directory on
\* a windows target only.
C6_CleanAfterDelete ==
    ~docs =>
        /\ (Ran("delete_src") /\ "delete_src" \notin failed) =>
              (~sbExists /\ ~sbUp /\ sb = EmptyTree)
        /\ srcHdrs = init.srcHdrs
        /\ targetDll # None => IsWindows(os)

C6_Witness ==
    /\ ~docs
    /\ pc = "done"
    /\ init.sb[ApiHeader] # None
    /\ sb = EmptyTree
    /\ ~sbExists

\* the steps of main, and the place of each in the order of main
Steps ==
    {"start", "mkdirs", "go", "make", "gendef", "dlltool", "dumpbin", "lib", "check_lib",
     "copy_headers", "copy_gen_header", "rm_out", "copy_out", "docs_copy", "delete_src",
     "emit_link", "copy_dll", "emit_rerun", "frameworks", "bindgen"}

Place ==
    [s \in Steps |->
        CASE s = "start" -> 0
          [] s = "mkdirs" -> 1
          [] s \in {"go", "make"} -> 2
          [] s = "gendef" -> 3
          [] s = "dlltool" -> 4
          [] s = "dumpbin" -> 5
          [] s = "lib" -> 6
          [] s = "check_lib" -> 7
          [] s = "copy_headers" -> 8
          [] s = "copy_gen_header" -> 9
          [] s = "rm_out" -> 10
          [] s = "copy_out" -> 11
          [] s \in {"docs_copy", "delete_src"} -> 12
          [] s = "emit_link" -> 13
          [] s = "copy_dll" -> 14
          [] s = "emit_rerun" -> 15
          [] s = "frameworks" -> 16
          [] s = "bindgen" -> 17]

\* C7: in a run without DOCS_RS the steps are executed one after the other
\* in the order native build, header copy, removal of OUT_DIR/uplink-c,
\* copy into OUT_DIR, deletion of uplink-c/.build, link directives,
\* binding generation; when uplink-c/.build is about to be deleted every
\* file of it is in OUT_DIR/uplink-c/.build; the bindings are those of the
\* header in OUT_DIR.
C7_Order ==
    ~docs =>
        /\ \A i \in 1..(Len(hist) - 1) : Place[hist[i]] < Place[hist[i + 1]]
        /\ Ran("bindgen") =>
              /\ Ran("go") \/ Ran("make")
              /\ Ran("copy_headers") /\ Ran("copy_gen_header")
              /\ Ran("rm_out") /\ Ran("copy_out") /\ Ran("delete_src")
              /\ Ran("emit_link")
        /\ (pc = "delete_src" \/ Ran("delete_src")) =>
              /\ Ran("copy_out") /\ "copy_out" \notin failed
              /\ \A f \in BuildFiles : sb[f] # None => outB[f] = sb[f]
              /\ srcHdrs \subseteq outHdrs
        /\ pc = "done" => (bindings # None /\ bindings = outB[ApiHeader])

C7_Witness ==
    /\ ~docs
    /\ pc = "done"
    /\ outB[StaticLib] = New
    /\ init.sb[MakeHeader] = Old
    /\ sb = EmptyTree

\* C8: on a windows target without DOCS_RS, a run that goes on after the
\* import-library stage has an uplink.lib made in this run from the DLL
\* built in this run, and a run whose go build failed is aborted.
C8_ImportLibOfThisRun ==
    (IsWindows(os) /\ ~docs) =>
        /\ pc = "copy_headers" => sb[ImportLib] = New
        /\ "go" \in failed => pc = "aborted"

====
